---------------------------- MODULE Spec2Model ----------------------------
(***************************************************************************)
(* A model of my_functions.py: the CSV loader load_data, the wrapper class *)
(* NeuralNetworkModel (construction, train, test, history accessors), and  *)
(* the error analysis calculate_cdf / plot_cdf.                            *)
(*                                                                         *)
(* Numbers.  Measurements and errors are integers here; a quotient is kept *)
(* as an exact reduced fraction <<numerator, denominator>>, so rounding of *)
(* IEEE doubles is outside the model.  Division by zero follows numpy:     *)
(* 0/0 is NaN and x/0 (x > 0) is inf.                                      *)
(*                                                                         *)
(* Library calls.  The network itself lives in Keras.  Its learned         *)
(* parameters are kept as one integer (`weights`) that every fitted epoch  *)
(* moves, and a forward pass is a fixed deterministic function of the      *)
(* weights and the input row.  What the model keeps of Keras is its        *)
(* contract: compile() before evaluate()/fit(), one History entry per      *)
(* epoch, predict()/evaluate() do not touch the weights.                   *)
(***************************************************************************)
EXTENDS Integers, Sequences, FiniteSets, TLC

VARIABLES
    errors,         \* calculate_cdf: the argument
    cdf_ret,        \* calculate_cdf: the returned pair, or NotCalled
    fs,             \* the data directories: <<folder, filename>> -> rows
    ld_pc,          \* load_data: "loop" | "done" | "idle"
    ld_i,           \* load_data: the next value of i of `for i in range(2)`
    ld_cur,         \* load_data: the value of i of the running iteration
    static_files,   \* load_data: the static files still to read
    dynamic_files,  \* load_data: the dynamic files still to read
    training_data,  \* load_data: the training frame
    testing_data,   \* load_data: the testing frame
    load_ret,       \* load_data: the returned pair, or NotCalled
    debug_csv,      \* the working directory: filename -> rows written
    nn,             \* the NeuralNetworkModel object, or NoModel
    call,           \* the train call that is running, or NoCall
    last_ret,       \* the last train or test call that ended: the object
                    \* as the call found it, what the call was given and
                    \* what it returned or raised (for a test, `again`: the
                    \* call before it was a test of the same data, which
                    \* ended as `prev`)
    acc_ret,        \* what the history accessors returned, or NoCall
    pl_models,      \* plot_cdf: the argument `models`, the objects' state
    pl_data,        \* plot_cdf: the argument `testing_data`
    pl_pc,          \* plot_cdf: "start" | "loop" | "raised" | "done" | "idle"
    pl_next,        \* plot_cdf: the position in `models` of the next model
    counter,        \* plot_cdf: the local `counter`
    fig,            \* the figure: the curves plotted, in order
    test_log        \* the positions of the models whose test was called

vars_cdf == <<errors, cdf_ret>>
vars_load == <<fs, ld_pc, ld_i, ld_cur, static_files, dynamic_files,
               training_data, testing_data, load_ret, debug_csv>>
vars_model == <<nn, call, last_ret, acc_ret>>
vars_plot == <<pl_models, pl_data, pl_pc, pl_next, counter, fig, test_log>>
vars == <<vars_cdf, vars_load, vars_model, vars_plot>>

(***************************************************************************)
(* Bounds of the model.                                                    *)
(***************************************************************************)
MaxErrLen == 3      \* longest error collection handed to calculate_cdf
MaxErr == 3         \* largest error magnitude
MaxFiles == 3       \* most files in the four data directories together
MaxRecords == 2     \* most records of a dataset handed to train or test
MaxEpochs == 2      \* largest configured number of epochs
MaxFitted == 3      \* most epochs fitted to one model over its life
MaxInitWeight == 1  \* the initializer draws the weights from 0..MaxInitWeight
MaxModels == 2      \* most models handed to plot_cdf

InitialWeights == 0..MaxInitWeight

NotCalled == <<"not called">>
NoModel == [absent |-> TRUE]
NoCall == [op |-> "none"]

(***************************************************************************)
(* The parts of the state a specification does not use stay as they are    *)
(* here.                                                                   *)
(***************************************************************************)
IdleCdf ==
    /\ errors = <<>>
    /\ cdf_ret = NotCalled

IdleLoad ==
    /\ fs = <<>>
    /\ ld_pc = "idle"
    /\ ld_i = 0
    /\ ld_cur = 0
    /\ static_files = <<>>
    /\ dynamic_files = <<>>
    /\ training_data = <<>>
    /\ testing_data = <<>>
    /\ load_ret = NotCalled
    /\ debug_csv = <<>>

IdlePlot ==
    /\ pl_models = <<>>
    /\ pl_data = <<>>
    /\ pl_pc = "idle"
    /\ pl_next = 0
    /\ counter = 0
    /\ fig = <<>>
    /\ test_log = <<>>

IdleModel ==
    /\ nn = NoModel
    /\ call = NoCall
    /\ last_ret = NoCall
    /\ acc_ret = NoCall

(***************************************************************************)
(* Arithmetic on floats, kept exact.                                       *)
(***************************************************************************)
NaN == <<0, 0>>
Inf == <<1, 0>>

RECURSIVE Gcd(_, _)
Gcd(a, b) == IF b = 0 THEN a ELSE Gcd(b, a % b)

\* numpy's true division of a non-negative a by a non-negative b
TrueDivide(a, b) ==
    IF b = 0
    THEN (IF a = 0 THEN NaN ELSE Inf)
    ELSE <<a \div Gcd(a, b), b \div Gcd(a, b)>>

IsNaN(q) == q = NaN

\* IEEE comparison of two quotients: every comparison with NaN is false
FracLeq(p, q) ==
    /\ ~IsNaN(p) /\ ~IsNaN(q)
    /\ \/ q = Inf
       \/ (p # Inf /\ p[1] * q[2] <= q[1] * p[2])

FracEq(p, q) == ~IsNaN(p) /\ ~IsNaN(q) /\ p = q

One == <<1, 1>>

(***************************************************************************)
(* calculate_cdf (lines 137-140).                                          *)
(***************************************************************************)
\* s with x put after the last element <= x (s ascending)
SortedInsert(s, x) ==
    LET k == Cardinality({i \in DOMAIN s : s[i] <= x})
    IN SubSeq(s, 1, k) \o <<x>> \o SubSeq(s, k + 1, Len(s))

RECURSIVE np_sort_asc(_)
np_sort_asc(s) ==
    IF s = <<>> THEN <<>> ELSE SortedInsert(np_sort_asc(Tail(s)), Head(s))

np_sort_none(s) == s

\* np.sort(errors)
np_sort(s) == np_sort_asc(s)

RECURSIVE np_sum(_)
np_sum(s) == IF s = <<>> THEN 0 ELSE Head(s) + np_sum(Tail(s))

\* np.cumsum(s): the running sums
np_cumsum(s) == [i \in DOMAIN s |-> np_sum(SubSeq(s, 1, i))]

\* the conventional empirical distribution function: rank i of n
calculate_cdf_rank(errs) ==
    LET sorted_errors == np_sort(errs)
    IN <<sorted_errors,
         [i \in DOMAIN sorted_errors |-> TrueDivide(i, Len(sorted_errors))]>>

calculate_cdf(errs) ==
    LET sorted_errors == np_sort(errs)
        cs == np_cumsum(sorted_errors)
        total == np_sum(sorted_errors)
        cdf == [i \in DOMAIN cs |-> TrueDivide(cs[i], total)]
    IN <<sorted_errors, cdf>>

(***************************************************************************)
(* load_data (lines 11-46).                                                *)
(*                                                                         *)
(* A filename is the sequence of its characters' code points, so that      *)
(* sorted() and endswith() work on it as Python's do.  A parsed cell is a  *)
(* number <<n, 1>> or NaN.  A row of a frame carries, beside its cells,    *)
(* the place it was read from (`src`: folder, filename, line), which the   *)
(* program does not keep and the claims about provenance need.             *)
(***************************************************************************)
columns == <<"input_X", "input_Y", "expected_X", "expected_Y">>

static_folders_paths == <<"./dane/f8/stat", "./dane/f10/stat">>
dynamic_folders_paths == <<"./dane/f8/dyn", "./dane/f10/dyn">>

Folders == {static_folders_paths[j] : j \in 1..2}
               \cup {dynamic_folders_paths[j] : j \in 1..2}

DotCsv == <<46, 99, 115, 118>>          \* ".csv"
DotTxt == <<46, 116, 120, 116>>         \* ".txt"
FileNames == {<<97>> \o DotCsv, <<98>> \o DotCsv, <<97>> \o DotTxt}

Cell(n) == <<n, 1>>
Row(a, b, c, d) == <<Cell(a), Cell(b), Cell(c), Cell(d)>>
\* the files' contents: 3 rows and 2 rows without a missing value, and a
\* file whose first and last rows miss a value
FileContents ==
    {<<Row(0, 0, 1, 1), Row(2, 1, 2, 2), Row(3, 3, 3, 2)>>,
     <<Row(4, 4, 4, 5), Row(6, 5, 5, 5)>>,
     <<<<NaN, Cell(8), Cell(8), Cell(9)>>, Row(1, 2, 3, 4),
       <<Cell(5), Cell(6), Cell(7), NaN>>>>}

\* the file systems of at most MaxFiles files
FileSystems ==
    UNION {[S -> FileContents] :
              S \in {T \in SUBSET (Folders \X FileNames) :
                        Cardinality(T) <= MaxFiles}}

\* os.listdir(path): the names, in no order one may rely on
os_listdir(path) == {p[2] : p \in {q \in DOMAIN fs : q[1] = path}}

endswith_any(file, suffix) == TRUE

\* str.endswith
endswith(file, suffix) ==
    /\ Len(file) >= Len(suffix)
    /\ SubSeq(file, Len(file) - Len(suffix) + 1, Len(file)) = suffix

\* Python's < on strings: by code point, a proper prefix first
RECURSIVE StrLess(_, _)
StrLess(a, b) ==
    IF a = <<>> THEN b # <<>>
    ELSE IF b = <<>> THEN FALSE
    ELSE IF Head(a) = Head(b) THEN StrLess(Tail(a), Tail(b))
    ELSE Head(a) < Head(b)

RECURSIVE sorted_desc(_)
sorted_desc(S) ==
    IF S = {} THEN <<>>
    ELSE LET m == CHOOSE x \in S : \A y \in S \ {x} : StrLess(y, x)
         IN <<m>> \o sorted_desc(S \ {m})

RECURSIVE sorted_asc(_)
sorted_asc(S) ==
    IF S = {} THEN <<>>
    ELSE LET m == CHOOSE x \in S : \A y \in S \ {x} : StrLess(x, y)
         IN <<m>> \o sorted_asc(S \ {m})

\* sorted(...) of a collection of distinct names
sorted(S) == sorted_asc(S)

\* sorted(file for file in os.listdir(path) if file.endswith(".csv"))
csv_files(path) == sorted({file \in os_listdir(path) : endswith(file, DotCsv)})

\* pd.read_csv(os.path.join(folder, file), names=columns)
read_csv(folder, file) ==
    [n \in DOMAIN fs[<<folder, file>>] |->
        [src |-> <<folder, file, n>>, cells |-> fs[<<folder, file>>][n]]]

\* pd.concat([a, b], ignore_index=True)
concat(a, b) == a \o b

HasNull(r) == \E c \in DOMAIN columns : IsNaN(r.cells[c])
AllNull(r) == \A c \in DOMAIN columns : IsNaN(r.cells[c])

KeepUnlessAllNull(r) == ~AllNull(r)
dropna_how_all(df) == SelectSeq(df, KeepUnlessAllNull)

KeepIfComplete(r) == ~HasNull(r)
\* DataFrame.dropna(): the rows without a missing value, in order
dropna(df) == SelectSeq(df, KeepIfComplete)

\* lines 12-17: the empty frames, before the first iteration
InitLoad ==
    /\ fs \in FileSystems
    /\ ld_pc = "loop"
    /\ ld_i = 1
    /\ ld_cur = 0
    /\ static_files = <<>>
    /\ dynamic_files = <<>>
    /\ training_data = <<>>
    /\ testing_data = <<>>
    /\ load_ret = NotCalled
    /\ debug_csv = <<>>
    /\ IdleCdf /\ IdleModel /\ IdlePlot

\* lines 19-25: the next iteration of `for i in range(2)` lists its folders
ListFiles ==
    /\ ld_pc = "loop"
    /\ static_files = <<>> /\ dynamic_files = <<>>
    /\ ld_i <= 2
    /\ ld_cur' = ld_i
    /\ ld_i' = ld_i + 1
    /\ static_files' = csv_files(static_folders_paths[ld_i])
    /\ dynamic_files' = csv_files(dynamic_folders_paths[ld_i])
    /\ UNCHANGED <<fs, ld_pc, training_data, testing_data, load_ret, debug_csv>>
    /\ UNCHANGED <<vars_cdf, vars_model, vars_plot>>

\* lines 27-30: one iteration of `for file in static_files`
ReadStatic ==
    /\ ld_pc = "loop"
    /\ static_files # <<>>
    /\ training_data' =
           concat(training_data,
                  read_csv(static_folders_paths[ld_cur], Head(static_files)))
    /\ static_files' = Tail(static_files)
    /\ UNCHANGED <<fs, ld_pc, ld_i, ld_cur, dynamic_files, testing_data,
                   load_ret, debug_csv>>
    /\ UNCHANGED <<vars_cdf, vars_model, vars_plot>>

\* lines 32-35: one iteration of `for file in dynamic_files`
ReadDynamic ==
    /\ ld_pc = "loop"
    /\ static_files = <<>>
    /\ dynamic_files # <<>>
    /\ testing_data' =
           concat(testing_data,
                  read_csv(dynamic_folders_paths[ld_cur], Head(dynamic_files)))
    /\ dynamic_files' = Tail(dynamic_files)
    /\ UNCHANGED <<fs, ld_pc, ld_i, ld_cur, static_files, training_data,
                   load_ret, debug_csv>>
    /\ UNCHANGED <<vars_cdf, vars_model, vars_plot>>

\* lines 37-46: the loop is over; drop the nulls, save both frames, return
DropNaAndReturn ==
    /\ ld_pc = "loop"
    /\ static_files = <<>> /\ dynamic_files = <<>>
    /\ ld_i > 2
    /\ training_data' = dropna(training_data)
    /\ testing_data' = dropna(testing_data)
    /\ debug_csv' = [f \in {"training_data.csv", "testing_data.csv"} |->
                        IF f = "training_data.csv"
                        THEN <<columns>> \o
                             [n \in DOMAIN training_data' |->
                                 training_data'[n].cells]
                        ELSE <<columns>> \o
                             [n \in DOMAIN testing_data' |->
                                 testing_data'[n].cells]]
    /\ load_ret' = <<training_data', testing_data'>>
    /\ ld_pc' = "done"
    /\ UNCHANGED <<fs, ld_i, ld_cur, static_files, dynamic_files>>
    /\ UNCHANGED <<vars_cdf, vars_model, vars_plot>>

NextLoad == ListFiles \/ ReadStatic \/ ReadDynamic \/ DropNaAndReturn

SpecLoad == InitLoad /\ [][NextLoad]_vars

(***************************************************************************)
(* NeuralNetworkModel (lines 49-133).                                      *)
(*                                                                         *)
(* A dataset is a frame without missing values, as load_data returns it:   *)
(* a sequence of records of the four columns.  Of the constructor's        *)
(* arguments the object keeps here the two that train reads to decide      *)
(* what happens: optimizer_type and epochs; the others only parameterise   *)
(* the Keras network.  `w0` and `fitted` are history fields: the weights   *)
(* the initializer drew and the number of epochs fitted since.             *)
(***************************************************************************)
Rec(a, b, c, d) ==
    [input_X |-> a, input_Y |-> b, expected_X |-> c, expected_Y |-> d]

Records == {Rec(0, 0, 1, 1), Rec(2, 1, 2, 2)}

Datasets == UNION {[1..n -> Records] : n \in 1..MaxRecords}

OptimizerNames == {"adam", "sgd", "rmsprop"}

\* df[["input_X", "input_Y"]].values
input_values(df) == [n \in DOMAIN df |-> <<df[n].input_X, df[n].input_Y>>]

\* df[["expected_X", "expected_Y"]].values
expected_values(df) ==
    [n \in DOMAIN df |-> <<df[n].expected_X, df[n].expected_Y>>]

\* the network's output for one input row under weights w
forward(w, x) == <<x[1] + w, x[2]>>

\* Model.predict(data): one output row per input row
model_predict(w, data) == [n \in DOMAIN data |-> forward(w, data[n])]

SquaredError(l, p) == (l[1] - p[1]) * (l[1] - p[1]) + (l[2] - p[2]) * (l[2] - p[2])

\* Keras' mean_squared_error over all rows and both outputs
mean_squared_error(labels, preds) ==
    TrueDivide(np_sum([n \in DOMAIN labels |-> SquaredError(labels[n], preds[n])]),
               2 * Len(labels))

\* Model.evaluate(data, labels): [loss, mse], both the mean squared error
model_evaluate(w, data, labels) ==
    <<mean_squared_error(labels, model_predict(w, data)),
      mean_squared_error(labels, model_predict(w, data))>>

\* one epoch of Model.fit: a gradient pass moves the weights
fit_epoch(w) == w + 1

Returned(value) == [exc |-> "", val |-> value]
Raised(name) == [exc |-> name, val |-> <<>>]
NoOutcome == [exc |-> "no call", val |-> <<>>]

\* lines 50-63 with create_model (65-85): the object after __init__
NewModel(optimizer, epochs, w) ==
    [optimizer_type |-> optimizer, epochs |-> epochs,
     compiled |-> FALSE, weights |-> w, w0 |-> w, fitted |-> 0]

optimizer_known_or_any(name) == TRUE

\* lines 95-100: the names the optimizer selection accepts
optimizer_known(name) == name = "adam" \/ name = "sgd"

\* what a test call that also fits one epoch would leave behind
model_after_test_fitting(m) ==
    IF m.compiled
    THEN [m EXCEPT !.weights = fit_epoch(m.weights), !.fitted = m.fitted + 1]
    ELSE m

\* lines 109-118: the object after test()
model_after_test(m) == m

\* lines 109-118: what test() returns or raises.  evaluate() on a network
\* that was never compiled raises; otherwise mse[1] and the predictions
test_outcome(m, testing_data_arg) ==
    IF ~m.compiled
    THEN Raised("NotCompiled")
    ELSE Returned(<<model_evaluate(m.weights, input_values(testing_data_arg),
                                   expected_values(testing_data_arg))[2],
                    model_predict(m.weights, input_values(testing_data_arg))>>)

\* History.on_epoch_end: each key's series grows by the epoch's value
history_overwrite(h, logs) == [k \in DOMAIN logs |-> <<logs[k]>>]

history_append(h, logs) ==
    [k \in DOMAIN logs |-> (IF k \in DOMAIN h THEN h[k] ELSE <<>>) \o <<logs[k]>>]

\* the metrics Keras logs at the end of an epoch fitted to weights w
epoch_logs(w, train_data, train_labels, val_data, val_labels) ==
    [k \in {"loss", "mse", "val_loss", "val_mse"} |->
        IF k \in {"loss", "mse"}
        THEN model_evaluate(w, train_data, train_labels)[2]
        ELSE model_evaluate(w, val_data, val_labels)[2]]

EmptyHistory == [k \in {} |-> <<>>]

history_get(h, key) ==
    IF key \in DOMAIN h THEN Returned(h[key]) ELSE Raised("KeyError")

\* lines 128-130
give_train_mse(h) == history_get(h, "mse")

\* lines 131-133
give_test_mse(h) == history_get(h, "val_mse")

InitModel ==
    /\ nn = NoModel
    /\ call = NoCall
    /\ last_ret = NoCall
    /\ acc_ret = NoCall
    /\ IdleCdf /\ IdleLoad /\ IdlePlot

\* NeuralNetworkModel(hidden_layers, ..., epochs=ep, optimizer=opt)
Construct(opt, ep, w) ==
    /\ nn = NoModel
    /\ nn' = NewModel(opt, ep, w)
    /\ UNCHANGED <<call, last_ret, acc_ret>>
    /\ UNCHANGED <<vars_cdf, vars_load, vars_plot>>

\* train, lines 87-100: the data is prepared and the optimizer selected;
\* an unknown name raises ValueError here and the call is over
TrainBegin(training_data_arg, testing_data_arg) ==
    /\ nn # NoModel
    /\ call = NoCall
    /\ nn.fitted + nn.epochs <= MaxFitted
    /\ acc_ret' = NoCall
    /\ \/ /\ optimizer_known(nn.optimizer_type)
          /\ call' = [op |-> "train", pc |-> "compile", epoch |-> 0,
                      self_before |-> nn,
                      train_data |-> input_values(training_data_arg),
                      train_labels |-> expected_values(training_data_arg),
                      val_data |-> input_values(testing_data_arg),
                      val_labels |-> expected_values(testing_data_arg),
                      history |-> EmptyHistory]
          /\ last_ret' = NoCall
       \/ /\ ~optimizer_known(nn.optimizer_type)
          /\ call' = NoCall
          /\ last_ret' = [op |-> "train", self_before |-> nn,
                          train_data |-> input_values(training_data_arg),
                          train_labels |-> expected_values(training_data_arg),
                          val_data |-> input_values(testing_data_arg),
                          val_labels |-> expected_values(testing_data_arg),
                          ret |-> Raised("ValueError")]
    /\ UNCHANGED nn
    /\ UNCHANGED <<vars_cdf, vars_load, vars_plot>>

\* train, line 103: self.model.compile(...)
TrainCompile ==
    /\ call.op = "train" /\ call.pc = "compile"
    /\ nn' = [nn EXCEPT !.compiled = TRUE]
    /\ call' = [call EXCEPT !.pc = "fit"]
    /\ UNCHANGED <<last_ret, acc_ret>>
    /\ UNCHANGED <<vars_cdf, vars_load, vars_plot>>

\* train, line 105: one epoch of self.model.fit(..., epochs=self.epochs)
FitEpoch ==
    /\ call.op = "train" /\ call.pc = "fit"
    /\ call.epoch < nn.epochs
    /\ nn' = [nn EXCEPT !.weights = fit_epoch(nn.weights),
                        !.fitted = nn.fitted + 1]
    /\ call' = [call EXCEPT
                   !.epoch = call.epoch + 1,
                   !.history = history_append(call.history,
                                   epoch_logs(nn'.weights, call.train_data,
                                              call.train_labels, call.val_data,
                                              call.val_labels))]
    /\ UNCHANGED <<last_ret, acc_ret>>
    /\ UNCHANGED <<vars_cdf, vars_load, vars_plot>>

\* train, lines 105-107: fit is through its epochs; the history is returned
TrainReturn ==
    /\ call.op = "train" /\ call.pc = "fit"
    /\ call.epoch >= nn.epochs
    /\ last_ret' = [op |-> "train", self_before |-> call.self_before,
                    train_data |-> call.train_data,
                    train_labels |-> call.train_labels,
                    val_data |-> call.val_data,
                    val_labels |-> call.val_labels,
                    ret |-> Returned(call.history)]
    /\ call' = NoCall
    /\ UNCHANGED <<nn, acc_ret>>
    /\ UNCHANGED <<vars_cdf, vars_load, vars_plot>>

\* test, lines 109-118
Test(testing_data_arg) ==
    /\ nn # NoModel
    /\ call = NoCall
    /\ nn' = model_after_test(nn)
    /\ last_ret' = [op |-> "test", self_before |-> nn,
                    arg |-> testing_data_arg,
                    again |-> (last_ret.op = "test"
                                  /\ last_ret.arg = testing_data_arg),
                    prev |-> (IF last_ret.op = "test"
                                    /\ last_ret.arg = testing_data_arg
                              THEN last_ret.ret ELSE NoOutcome),
                    ret |-> test_outcome(nn, testing_data_arg)]
    /\ acc_ret' = NoCall
    /\ UNCHANGED call
    /\ UNCHANGED <<vars_cdf, vars_load, vars_plot>>

\* give_train_mse(history) and give_test_mse(history) on the history that
\* train returned last
GiveMse ==
    /\ call = NoCall
    /\ last_ret.op = "train"
    /\ last_ret.ret.exc = ""
    /\ acc_ret = NoCall
    /\ acc_ret' = [op |-> "give_mse",
                   train |-> give_train_mse(last_ret.ret.val),
                   test |-> give_test_mse(last_ret.ret.val)]
    /\ UNCHANGED <<nn, call, last_ret>>
    /\ UNCHANGED <<vars_cdf, vars_load, vars_plot>>

NextModel ==
    \/ \E opt \in OptimizerNames, ep \in 0..MaxEpochs, w \in InitialWeights :
          Construct(opt, ep, w)
    \/ \E td \in Datasets, vd \in Datasets : TrainBegin(td, vd)
    \/ TrainCompile
    \/ FitEpoch
    \/ TrainReturn
    \/ \E d \in Datasets : Test(d)
    \/ GiveMse

Spec == InitModel /\ [][NextModel]_vars

(***************************************************************************)
(* plot_cdf (lines 141-165).                                               *)
(*                                                                         *)
(* The figure is the sequence of the curves plotted so far.  `test_log`    *)
(* is a history variable: the positions, in `models`, of the models whose  *)
(* test method the call has invoked.                                       *)
(***************************************************************************)
Abs(x) == IF x < 0 THEN -x ELSE x

\* one magnitude per record: the two coordinates' errors added up
abs_errors_per_record(labels, preds) ==
    [n \in DOMAIN labels |->
        Abs(labels[n][1] - preds[n][1]) + Abs(labels[n][2] - preds[n][2])]

\* np.abs(labels - preds).flatten(): row by row, X before Y
abs_errors_flat(labels, preds) ==
    [j \in 1..(2 * Len(labels)) |->
        Abs(labels[(j + 1) \div 2][2 - (j % 2)]
                - preds[(j + 1) \div 2][2 - (j % 2)])]

\* 'Model: {}'.format(counter)
model_label(n) == <<"Model: ", n>>

baseline_label == <<"wszystkie pomiary dynamiczne", 0>>

Curve(cdf_pair, label, linestyle) ==
    [x |-> cdf_pair[1], y |-> cdf_pair[2], label |-> label,
     linestyle |-> linestyle]

\* the models a caller may hand over: as constructed, or compiled by train
\* and fitted for some epochs
ModelObjects ==
    {NewModel("adam", 1, 0)}
        \cup {[NewModel("adam", 1, 0) EXCEPT
                  !.compiled = TRUE, !.weights = f, !.fitted = f] :
                  f \in 0..MaxFitted}

ModelLists == UNION {[1..k -> ModelObjects] : k \in 0..MaxModels}

InitPlot ==
    /\ pl_models \in ModelLists
    /\ pl_data \in Datasets
    /\ pl_pc = "start"
    /\ pl_next = 0
    /\ counter = 0
    /\ fig = <<>>
    /\ test_log = <<>>
    /\ IdleCdf /\ IdleLoad /\ IdleModel

\* lines 142-143: the empty figure, counter = 1
PlotBegin ==
    /\ pl_pc = "start"
    /\ pl_pc' = "loop"
    /\ pl_next' = 1
    /\ counter' = 1
    /\ fig' = <<>>
    /\ UNCHANGED <<pl_models, pl_data, test_log>>
    /\ UNCHANGED <<vars_cdf, vars_load, vars_model>>

\* lines 144-152: one iteration of `for model in models`; an exception of
\* model.test ends plot_cdf
PlotModel ==
    /\ pl_pc = "loop"
    /\ pl_next <= Len(pl_models)
    /\ test_log' = Append(test_log, pl_next)
    /\ pl_models' = [pl_models EXCEPT
                        ![pl_next] = model_after_test(pl_models[pl_next])]
    /\ LET outcome == test_outcome(pl_models[pl_next], pl_data)
       IN IF outcome.exc # ""
          THEN /\ pl_pc' = "raised"
               /\ UNCHANGED <<pl_next, counter, fig>>
          ELSE /\ fig' = Append(fig,
                            Curve(calculate_cdf(
                                      abs_errors_flat(expected_values(pl_data),
                                                      outcome.val[2])),
                                  model_label(counter), "-"))
               /\ counter' = counter + 1
               /\ pl_next' = pl_next + 1
               /\ UNCHANGED pl_pc
    /\ UNCHANGED pl_data
    /\ UNCHANGED <<vars_cdf, vars_load, vars_model>>

\* lines 154-165: the loop is over; the curve of the raw measurements'
\* errors, the axes, the legend, the show
PlotBaseline ==
    /\ pl_pc = "loop"
    /\ pl_next > Len(pl_models)
    /\ fig' = Append(fig,
                  Curve(calculate_cdf(abs_errors_flat(expected_values(pl_data),
                                                      input_values(pl_data))),
                        baseline_label, "--"))
    /\ pl_pc' = "done"
    /\ UNCHANGED <<pl_models, pl_data, pl_next, counter, test_log>>
    /\ UNCHANGED <<vars_cdf, vars_load, vars_model>>

NextPlot == PlotBegin \/ PlotModel \/ PlotBaseline

SpecPlot == InitPlot /\ [][NextPlot]_vars

(***************************************************************************)
(* Specification SpecCdf: calculate_cdf on every bounded input.            *)
(***************************************************************************)
ErrorInputs == UNION {[1..n -> 0..MaxErr] : n \in 0..MaxErrLen}

InitCdf ==
    /\ errors \in ErrorInputs
    /\ cdf_ret = NotCalled
    /\ IdleLoad /\ IdleModel /\ IdlePlot

CallCalculateCdf ==
    /\ cdf_ret = NotCalled
    /\ cdf_ret' = calculate_cdf(errors)
    /\ UNCHANGED <<errors, vars_load, vars_model, vars_plot>>

NextCdf == CallCalculateCdf

SpecCdf == InitCdf /\ [][NextCdf]_vars

(***************************************************************************)
(* Claims about calculate_cdf.                                             *)
(***************************************************************************)
CdfReturned == cdf_ret # NotCalled

IsAscending(s) == \A i \in 1..(Len(s) - 1) : s[i] <= s[i + 1]

Count(s, v) == Cardinality({i \in DOMAIN s : s[i] = v})

\* t holds the elements of s, each as often as s does
SameElements(s, t) ==
    /\ Len(s) = Len(t)
    /\ \A v \in 0..MaxErr : Count(s, v) = Count(t, v)

NonDecreasing(c) == \A i \in 1..(Len(c) - 1) : FracLeq(c[i], c[i + 1])

CdfContract ==
    /\ IsAscending(cdf_ret[1])
    /\ SameElements(errors, cdf_ret[1])
    /\ Len(cdf_ret[2]) = Len(errors)
    /\ NonDecreasing(cdf_ret[2])
    /\ FracEq(cdf_ret[2][Len(cdf_ret[2])], One)

\* C1 as stated: for EVERY non-empty collection of non-negative errors the
\* result is the ascending input, a non-decreasing cdf, and a last value 1.
C1_AsStated ==
    (CdfReturned /\ Len(errors) > 0) => CdfContract

\* C1 amended: for every non-empty collection of non-negative errors whose
\* total is not zero, calculate_cdf returns the input in ascending order and
\* a non-decreasing cdf whose last value is 1.
C1_CdfContractNonZeroTotal ==
    (CdfReturned /\ Len(errors) > 0 /\ np_sum(errors) # 0) => CdfContract

C1_Witness ==
    /\ CdfReturned
    /\ Len(errors) = 3
    /\ errors[1] > errors[2]
    /\ errors[3] = 0
    /\ cdf_ret[2][3] = One

\* the sums of the index sets of size k
SubsetSums(s, k) ==
    {np_sum([j \in 1..k |->
                s[CHOOSE i \in I : Cardinality({x \in I : x < i}) = j - 1]]) :
        I \in {J \in SUBSET DOMAIN s : Cardinality(J) = k}}

\* the sum of the k smallest elements of s: the least sum of k of them
SumOfSmallest(s, k) ==
    CHOOSE m \in SubsetSums(s, k) : \A o \in SubsetSums(s, k) : m <= o

\* C2: with a non-zero total, the cdf has one value per error and its i-th
\* value is (sum of the i smallest errors) / (sum of all errors): the
\* cumulative share of error magnitude, whatever the rank fraction i/n is.
C2_CdfIsMagnitudeShare ==
    (CdfReturned /\ np_sum(errors) # 0) =>
        /\ Len(cdf_ret[2]) = Len(errors)
        /\ \A i \in DOMAIN cdf_ret[2] :
            /\ cdf_ret[2][i][2] > 0
            /\ cdf_ret[2][i][1] * np_sum(errors)
                   = SumOfSmallest(errors, i) * cdf_ret[2][i][2]

\* an input whose first cdf value is 1/6 where the rank fraction is 1/3
C2_Witness ==
    /\ CdfReturned
    /\ errors = <<3, 1, 2>>
    /\ cdf_ret[2][1] = <<1, 6>>
    /\ cdf_ret[2][1] # TrueDivide(1, Len(errors))

(***************************************************************************)
(* Claims about load_data.                                                 *)
(***************************************************************************)
LoadReturned == ld_pc = "done"

\* the name ends in ".csv", spelled out character by character
HasCsvExtension(file) ==
    /\ Len(file) >= 4
    /\ file[Len(file) - 3] = 46
    /\ file[Len(file) - 2] = 99
    /\ file[Len(file) - 1] = 115
    /\ file[Len(file)] = 118

\* the files of the two folders of `paths` that carry the CSV extension
CsvFilesOf(paths) ==
    {p \in DOMAIN fs : p[1] \in {paths[1], paths[2]} /\ HasCsvExtension(p[2])}

\* the lines of those files
LinesOf(paths) ==
    UNION {{<<p[1], p[2], n>> : n \in DOMAIN fs[p]} : p \in CsvFilesOf(paths)}

CompleteCells(cells) == \A c \in 1..4 : cells[c][2] # 0

NoMissingValue(df) == \A k \in DOMAIN df : CompleteCells(df[k].cells)

\* every line of the files of `paths` that misses no value is a row of df
CompleteLinesKept(df, paths) ==
    \A l \in LinesOf(paths) :
        CompleteCells(fs[<<l[1], l[2]>>][l[3]]) =>
            \E k \in DOMAIN df :
                df[k] = [src |-> l, cells |-> fs[<<l[1], l[2]>>][l[3]]]

\* C3: after load_data returns, no row of either dataset misses a value in
\* any of the four columns, and every source row without a missing value is
\* still in its dataset.
C3_NullRowsDroppedOthersKept ==
    LoadReturned =>
        /\ NoMissingValue(load_ret[1])
        /\ NoMissingValue(load_ret[2])
        /\ CompleteLinesKept(load_ret[1], static_folders_paths)
        /\ CompleteLinesKept(load_ret[2], dynamic_folders_paths)

\* a static and a dynamic file with the rows [NaN,8,8,9], [1,2,3,4] and
\* [5,6,7,NaN]: each dataset holds the middle row alone
C3_Witness ==
    /\ LoadReturned
    /\ \E p \in CsvFilesOf(static_folders_paths) :
          /\ Len(fs[p]) = 3
          /\ fs[p][3] = <<Cell(5), Cell(6), Cell(7), NaN>>
          /\ load_ret[1] = <<[src |-> <<p[1], p[2], 2>>,
                              cells |-> Row(1, 2, 3, 4)]>>
    /\ \E p \in CsvFilesOf(dynamic_folders_paths) :
          /\ fs[p][1][1] = NaN
          /\ Len(load_ret[2]) = 1

\* rows of a file with the smaller name come first, whatever the folders
NameOrder(df) ==
    \A a, b \in DOMAIN df :
        StrLess(df[a].src[2], df[b].src[2]) => a < b

\* rows of a file with the smaller name come first, within one folder
NameOrderWithinFolder(df) ==
    \A a, b \in DOMAIN df :
        (df[a].src[1] = df[b].src[1] /\ StrLess(df[a].src[2], df[b].src[2]))
            => a < b

\* rows of the first folder of `paths` come before rows of the second
FolderOrder(df, paths) ==
    \A a, b \in DOMAIN df :
        (df[a].src[1] = paths[1] /\ df[b].src[1] = paths[2]) => a < b

\* rows of one file keep their order
LineOrder(df) ==
    \A a, b \in DOMAIN df :
        (df[a].src[1] = df[b].src[1] /\ df[a].src[2] = df[b].src[2]
            /\ df[a].src[3] < df[b].src[3]) => a < b

\* with no missing value in the files, one row per line of the files
RowCount(df, paths) ==
    (\A l \in LinesOf(paths) : CompleteCells(fs[<<l[1], l[2]>>][l[3]]))
        => Len(df) = Cardinality(LinesOf(paths))

\* C4 as stated: for ANY two loaded static files the rows of the one with
\* the smaller filename come first (likewise dynamic files), rows of one file
\* keep their order, and without missing values the row count is the sum.
C4_AsStated ==
    LoadReturned =>
        /\ NameOrder(load_ret[1]) /\ NameOrder(load_ret[2])
        /\ LineOrder(load_ret[1]) /\ LineOrder(load_ret[2])
        /\ RowCount(load_ret[1], static_folders_paths)
        /\ RowCount(load_ret[2], dynamic_folders_paths)

\* C4 amended: for any two loaded static files OF THE SAME DIRECTORY the rows
\* of the one with the smaller filename come first, and every row of the f8
\* directory comes before every row of the f10 directory (likewise dynamic
\* files); rows of one file keep their order; without missing values the row
\* count is the sum of the files' row counts.
C4_OrderWithinFolderThenByFolder ==
    LoadReturned =>
        /\ NameOrderWithinFolder(load_ret[1])
        /\ NameOrderWithinFolder(load_ret[2])
        /\ FolderOrder(load_ret[1], static_folders_paths)
        /\ FolderOrder(load_ret[2], dynamic_folders_paths)
        /\ LineOrder(load_ret[1]) /\ LineOrder(load_ret[2])
        /\ RowCount(load_ret[1], static_folders_paths)
        /\ RowCount(load_ret[2], dynamic_folders_paths)

\* two static files of one folder, of 3 and 2 rows, and a third in the other
\* folder: 7 rows, the first folder's a.csv, its b.csv, then the other file
C4_Witness ==
    /\ LoadReturned
    /\ Len(load_ret[1]) = 7
    /\ load_ret[1][1].src = <<static_folders_paths[1], <<97>> \o DotCsv, 1>>
    /\ load_ret[1][4].src = <<static_folders_paths[1], <<98>> \o DotCsv, 1>>
    /\ load_ret[1][6].src = <<static_folders_paths[2], <<97>> \o DotCsv, 1>>

\* every row of df is a line of a CSV file of the folders of `paths`
RowsComeFrom(df, paths) ==
    \A k \in DOMAIN df :
        /\ df[k].src \in LinesOf(paths)
        /\ df[k].cells = fs[<<df[k].src[1], df[k].src[2]>>][df[k].src[3]]

\* C9: at every point of load_data, each training row is a line of a .csv
\* file of a static folder and each testing row a line of a .csv file of a
\* dynamic folder; no file has rows in both, and a file without the .csv
\* extension has rows in neither.
C9_RowsRoutedBySource ==
    /\ RowsComeFrom(training_data, static_folders_paths)
    /\ RowsComeFrom(testing_data, dynamic_folders_paths)
    /\ \A a \in DOMAIN training_data : \A b \in DOMAIN testing_data :
          <<training_data[a].src[1], training_data[a].src[2]>>
              # <<testing_data[b].src[1], testing_data[b].src[2]>>
    /\ \A a \in DOMAIN training_data : HasCsvExtension(training_data[a].src[2])
    /\ \A b \in DOMAIN testing_data : HasCsvExtension(testing_data[b].src[2])

\* a static folder with a.csv and a.txt and a dynamic folder with a.csv:
\* both datasets are returned non-empty
C9_Witness ==
    /\ LoadReturned
    /\ \E p \in DOMAIN fs :
          p[1] = static_folders_paths[2] /\ ~HasCsvExtension(p[2])
    /\ <<static_folders_paths[2], <<97>> \o DotCsv>> \in DOMAIN fs
    /\ <<dynamic_folders_paths[1], <<97>> \o DotCsv>> \in DOMAIN fs
    /\ load_ret[1] # <<>>
    /\ load_ret[2] # <<>>


(***************************************************************************)
(* Claims about NeuralNetworkModel.                                        *)
(***************************************************************************)
Recognized == {"adam", "sgd"}

\* C5: a train call on a model whose optimizer name is neither "adam" nor
\* "sgd" ends in ValueError before the network is compiled and before any
\* epoch runs: no such call gets past the optimizer selection, the object,
\* its learned parameters included, is as the call found it, and no history
\* is returned.
C5_UnknownOptimizerTrainRaises ==
    /\ (call.op = "train" => call.self_before.optimizer_type \in Recognized)
    /\ (last_ret.op = "train"
           /\ last_ret.self_before.optimizer_type \notin Recognized) =>
           /\ last_ret.ret = Raised("ValueError")
           /\ call = NoCall
           /\ nn = last_ret.self_before
           /\ ~nn.compiled
           /\ nn.fitted = 0
           /\ nn.weights = nn.w0

C5_Witness ==
    /\ nn # NoModel
    /\ nn.optimizer_type = "rmsprop"
    /\ nn.epochs = 2
    /\ last_ret.op = "train"
    /\ last_ret.ret.exc = "ValueError"
    /\ nn.weights = nn.w0

\* C6 as stated: construction with an unrecognized optimizer name fails, so
\* no model object with an unrecognized optimizer kind ever exists.
C6_AsStated ==
    nn # NoModel => nn.optimizer_type \in Recognized

\* C6 amended: construction with optimizer name "rmsprop" (any name outside
\* {"adam", "sgd"}) succeeds; the invalid-configuration error comes from
\* train, before any epoch runs: a model object with an unrecognized
\* optimizer kind is never compiled, never fitted for an epoch, keeps its
\* initial parameters, and has every train call on it end in ValueError.
C6_UnknownOptimizerNeverFitted ==
    (nn # NoModel /\ nn.optimizer_type \notin Recognized) =>
        /\ ~nn.compiled
        /\ nn.fitted = 0
        /\ nn.weights = nn.w0
        /\ call = NoCall
        /\ (last_ret.op = "train" => last_ret.ret = Raised("ValueError"))

\* the object exists right after its construction with "rmsprop"
C6_Witness ==
    /\ nn # NoModel
    /\ nn.optimizer_type = "rmsprop"
    /\ last_ret = NoCall
    /\ call = NoCall

Absent(r) == r.exc = "KeyError"

\* the series r has n entries, the e-th the error, on the data given, of
\* the weights after the e-th epoch of the call
IsEpochSeries(r, n, data, labels) ==
    /\ r.exc = ""
    /\ Len(r.val) = n
    /\ \A e \in 1..n :
          r.val[e] = mean_squared_error(
                         labels, model_predict(last_ret.self_before.weights + e, data))

\* C7: for a model of N epochs and a recognized optimizer, train returns a
\* history whose training-error and validation-error series, as the
\* accessors give them, have N entries each, one per epoch in epoch order;
\* with N = 0 the history holds no series and both are absent.
C7_HistoryHasOneEntryPerEpoch ==
    (nn # NoModel /\ last_ret.op = "train"
        /\ nn.optimizer_type \in Recognized) =>
        /\ last_ret.ret.exc = ""
        /\ nn.fitted >= nn.epochs
        /\ IF nn.epochs = 0
           THEN /\ Absent(give_train_mse(last_ret.ret.val))
                /\ Absent(give_test_mse(last_ret.ret.val))
           ELSE /\ IsEpochSeries(give_train_mse(last_ret.ret.val), nn.epochs,
                                 last_ret.train_data, last_ret.train_labels)
                /\ IsEpochSeries(give_test_mse(last_ret.ret.val), nn.epochs,
                                 last_ret.val_data, last_ret.val_labels)
        /\ (acc_ret # NoCall =>
               /\ acc_ret.train = give_train_mse(last_ret.ret.val)
               /\ acc_ret.test = give_test_mse(last_ret.ret.val))

\* a train call of 2 epochs has returned and the accessors were read
C7_Witness ==
    /\ nn # NoModel
    /\ nn.epochs = 2
    /\ nn.fitted = 2
    /\ acc_ret # NoCall
    /\ Len(acc_ret.train.val) = 2
    /\ Len(acc_ret.test.val) = 2
    /\ acc_ret.test.val[1] # acc_ret.test.val[2]

Zero == <<0, 1>>

PairsWithError(w, v) ==
    Cardinality({rc \in (DOMAIN pl_data) \X {1, 2} :
        Abs(expected_values(pl_data)[rc[1]][rc[2]]
                - forward(w, input_values(pl_data)[rc[1]])[rc[2]]) = v})

\* how many pairs have v between the expected and the input value
PairsWithRawError(v) ==
    Cardinality({rc \in (DOMAIN pl_data) \X {1, 2} :
        Abs(expected_values(pl_data)[rc[1]][rc[2]]
                - input_values(pl_data)[rc[1]][rc[2]]) = v})

ErrorRange == 0..(MaxFitted + 3)

\* the curve is over 2*M magnitudes: its x values ascend, and its y values
\* are their cumulative shares
IsCdfCurve(c) ==
    /\ Len(c.x) = 2 * Len(pl_data)
    /\ Len(c.y) = 2 * Len(pl_data)
    /\ IsAscending(c.x)
    /\ \A i \in DOMAIN c.y : c.y[i] = TrueDivide(np_sum(SubSeq(c.x, 1, i)),
                                                  np_sum(c.x))

\* C10: plot_cdf calls test once on each model, in list order, and trains
\* none of them; only a model that was never compiled makes it end in that
\* model's exception; when it returns from k models and M records the figure
\* holds k+1 curves: the i-th is the CDF of the 2*M absolute errors of the
\* i-th model's predictions, labelled with i, and the last is the dashed
\* baseline of |expected - input|.
C10_PlotCdfCurves ==
    /\ [](/\ Len(test_log) <= Len(pl_models)
          /\ \A j \in DOMAIN test_log : test_log[j] = j
          /\ (pl_pc = "raised" => ~pl_models[test_log[Len(test_log)]].compiled)
          /\ (pl_pc = "done" =>
                /\ Len(test_log) = Len(pl_models)
                /\ Len(fig) = Len(pl_models) + 1
                /\ \A i \in DOMAIN pl_models :
                      /\ fig[i].label = <<"Model: ", i>>
                      /\ IsCdfCurve(fig[i])
                      /\ \A v \in ErrorRange :
                            Count(fig[i].x, v)
                                = PairsWithError(pl_models[i].weights, v)
                /\ fig[Len(fig)].label[1] = "wszystkie pomiary dynamiczne"
                /\ fig[Len(fig)].linestyle = "--"
                /\ IsCdfCurve(fig[Len(fig)])
                /\ \A v \in ErrorRange :
                      Count(fig[Len(fig)].x, v) = PairsWithRawError(v)))
    /\ [][pl_models' = pl_models]_vars

\* two differently trained models and two records: three curves, the
\* second model's labelled 2
C10_Witness ==
    /\ pl_pc = "done"
    /\ Len(pl_models) = 2
    /\ pl_models[1].weights # pl_models[2].weights
    /\ Len(pl_data) = 2
    /\ Len(fig) = 3
    /\ fig[2].label = <<"Model: ", 2>>
    /\ Len(fig[2].x) = 4
    /\ fig[1].x # fig[2].x


=============================================================================
